---- MODULE Spec2Model ----
(***************************************************************************)
(* SMART-on-FHIR lab dashboard: the entry script of the repository in its  *)
(* three versions (src/script.js, src/unnamed/part_000,                    *)
(* src/unnamed/part_001).  One page load is modelled: FHIR.oauth2.ready()  *)
(* settles, the entry handlers run, and the callbacks of the patient fetch *)
(* and of the observation query run in whatever order the responses come.  *)
(*                                                                         *)
(* JavaScript values are tagged records.  A JavaScript string is a         *)
(* sequence of atoms (characters for timestamps and the gender, words for  *)
(* messages and fixed texts); concatenation is \o, substring is SubSeq and *)
(* includes is a search for a contiguous run of atoms.                     *)
(***************************************************************************)
EXTENDS Integers, Sequences, FiniteSets, TLC

\* ------------------------------------------------------------------ bounds
\* longest sequence of observations a query answers with
MaxObs == 3

\* --------------------------------------------------------- JavaScript values
Undef == [t |-> "undefined"]
Null == [t |-> "null"]
Str(s) == [t |-> "string", s |-> s]
Num(n) == [t |-> "number", n |-> n]
Obj == [t |-> "object"]
Err(m) == [t |-> "error", name |-> <<"Error">>, message |-> m]

\* typeof v
TypeOf(v) ==
  IF v.t = "null" \/ v.t = "error" THEN "object" ELSE v.t

\* ToBoolean: what `v ||`, `v ?` and `if (v)` test
Truthy(v) ==
  CASE v.t = "undefined" -> FALSE
    [] v.t = "null" -> FALSE
    [] v.t = "string" -> v.s # <<>>
    [] v.t = "number" -> v.n # 0
    [] OTHER -> TRUE

\* a || b
Or(a, b) == IF Truthy(a) THEN a ELSE b

\* property read on a value that may lack the property
Get(o, f) == IF f \in DOMAIN o THEN o[f] ELSE Undef

\* ToString: String(v), "" + v and ${v}
ToStr(v) ==
  CASE v.t = "undefined" -> <<"undefined">>
    [] v.t = "null" -> <<"null">>
    [] v.t = "string" -> v.s
    [] v.t = "number" -> <<ToString(v.n)>>
    [] v.t = "error" ->
         IF Truthy(v.message) THEN v.name \o <<": ">> \o v.message.s
         ELSE v.name
    [] OTHER -> <<"[object Object]">>

\* s.includes(p)
Includes(s, p) ==
  \E i \in 1..(Len(s) + 1) :
    i + Len(p) - 1 <= Len(s) /\ SubSeq(s, i, i + Len(p) - 1) = p

\* s.substring(0, n)
Substring0(s, n) == SubSeq(s, 1, IF Len(s) < n THEN Len(s) ELSE n)

\* encodeURIComponent, atom by atom
EncodeAtom(a) ==
  CASE a = ":" -> "%3A"
    [] a = "/" -> "%2F"
    [] a = "|" -> "%7C"
    [] a = " " -> "%20"
    [] OTHER -> a

EncodeURIComponent(s) == [i \in 1..Len(s) |-> EncodeAtom(s[i])]

IsPrefix(s, u) == Len(s) <= Len(u) /\ SubSeq(u, 1, Len(s)) = s

\* ------------------------------------------------------- program constants
Versions == {"script", "part_000", "part_001"}

DEV_SERVER_URL == <<"https", ":", "/", "/", "r3.smarthealthit.org">>
DEV_PATIENT_ID == <<"smart-1288992">>
StatePhrase == <<"No", " ", "'state'", " ", "parameter">>
PageLimit == 3
DateLen == 10

LoincSystem == <<"http", ":", "/", "/", "loinc.org", "|">>

\* the fixed laboratory test of each version
LabCode(v) ==
  IF v = "part_000" THEN LoincSystem \o <<"2823-3">>
  ELSE LoincSystem \o <<"2093-3">>

LabWord(v) == IF v = "part_000" THEN "potassium" ELSE "cholesterol"

\* the entry script takes an explicit patient identifier only in part_001
TakesPatientId(v) == v = "part_001"

\* ------------------------------------------------------------- small helpers
RECURSIVE Join(_)
\* parts.join(" ")
Join(parts) ==
  IF parts = <<>> THEN <<>>
  ELSE IF Len(parts) = 1 THEN parts[1]
  ELSE parts[1] \o <<" ">> \o Join(Tail(parts))

RECURSIVE TrimLeft(_)
TrimLeft(s) == IF s # <<>> /\ Head(s) = " " THEN TrimLeft(Tail(s)) ELSE s

RECURSIVE TrimRight(_)
TrimRight(s) ==
  IF s # <<>> /\ s[Len(s)] = " " THEN TrimRight(SubSeq(s, 1, Len(s) - 1)) ELSE s

\* s.trim()
Trim(s) == TrimRight(TrimLeft(s))

\* name is patient.name && patient.name[0]: Undef, or a HumanName record
formatHumanName(name) ==
  IF ~Truthy(name) THEN <<"(no name)">>
  ELSE LET given == Join(IF "given" \in DOMAIN name THEN name.given ELSE <<>>)
           family == ToStr(Or(Get(name, "family"), Str(<<>>)))
           full == Trim(given \o <<" ">> \o family)
       IN  IF full # <<>> THEN full ELSE <<"(no name)">>

ToUpperCase(a) ==
  CASE a = "m" -> "M"
    [] a = "f" -> "F"
    [] a = "o" -> "O"
    [] a = "u" -> "U"
    [] OTHER -> a

capitalize(s) ==
  IF s = <<>> THEN <<>> ELSE <<ToUpperCase(s[1])>> \o Tail(s)

getObservationDate(obs) ==
  IF Truthy(Get(obs, "effectiveDateTime"))
    THEN Substring0(obs.effectiveDateTime.s, DateLen)
  ELSE IF Truthy(Get(obs, "issued"))
    THEN Substring0(obs.issued.s, DateLen)
  ELSE <<>>

\* Highcharts.chart("lab-chart", options) as renderChart(dates, values) calls it
renderChart(v, dates, values) ==
  IF dates = <<>> \/ values = <<>>
    THEN [title |-> "No data to display", categories |-> <<>>, series |-> <<>>]
    ELSE [title |-> IF v = "part_000" THEN "Serum Potassium Over Time"
                    ELSE "Total Cholesterol Over Time",
          categories |-> dates,
          series |-> << [name |-> IF v = "part_000" THEN "Potassium"
                                  ELSE "Total Cholesterol",
                         data |-> values] >>]

\* a table row holding one cell that spans all columns
Placeholder(text) == [kind |-> "placeholder", colspan |-> 4, text |-> text]

\* ForEachBody with the row built inside the if that feeds the chart
ForEachBody_RowInsideIf(acc, obs) ==
  LET date == getObservationDate(obs)
      valueQuantity == Or(Get(obs, "valueQuantity"), Obj)
      value == Get(valueQuantity, "value")
      unit == Or(Or(Get(valueQuantity, "unit"), Get(valueQuantity, "code")),
                 Str(<<>>))
      status == Or(Get(obs, "status"), Str(<<>>))
      charted == date # <<>> /\ TypeOf(value) = "number"
      row == [kind |-> "data",
              cells |-> << date, ToStr(value), ToStr(unit), ToStr(status) >>]
  IN  IF charted
        THEN [dates |-> Append(acc.dates, date),
              values |-> Append(acc.values, value.n),
              rows |-> Append(acc.rows, row)]
        ELSE acc

\* ForEachBody with the chart fed by every numeric value, dated or not
ForEachBody_NoDateTest(acc, obs) ==
  LET date == getObservationDate(obs)
      valueQuantity == Or(Get(obs, "valueQuantity"), Obj)
      value == Get(valueQuantity, "value")
      unit == Or(Or(Get(valueQuantity, "unit"), Get(valueQuantity, "code")),
                 Str(<<>>))
      status == Or(Get(obs, "status"), Str(<<>>))
      charted == TypeOf(value) = "number"
      row == [kind |-> "data",
              cells |-> << date,
                           IF value.t \notin {"undefined", "null"}
                             THEN ToStr(value) ELSE <<>>,
                           ToStr(unit),
                           ToStr(status) >>]
  IN  [dates |-> IF charted THEN Append(acc.dates, date) ELSE acc.dates,
       values |-> IF charted THEN Append(acc.values, value.n) ELSE acc.values,
       rows |-> Append(acc.rows, row)]

\* ForEachBody with the value cell filled for numbers only
ForEachBody_NumericCellOnly(acc, obs) ==
  LET date == getObservationDate(obs)
      valueQuantity == Or(Get(obs, "valueQuantity"), Obj)
      value == Get(valueQuantity, "value")
      unit == Or(Or(Get(valueQuantity, "unit"), Get(valueQuantity, "code")),
                 Str(<<>>))
      status == Or(Get(obs, "status"), Str(<<>>))
      charted == date # <<>> /\ TypeOf(value) = "number"
      row == [kind |-> "data",
              cells |-> << date,
                           IF TypeOf(value) = "number"
                             THEN ToStr(value) ELSE <<>>,
                           ToStr(unit),
                           ToStr(status) >>]
  IN  [dates |-> IF charted THEN Append(acc.dates, date) ELSE acc.dates,
       values |-> IF charted THEN Append(acc.values, value.n) ELSE acc.values,
       rows |-> Append(acc.rows, row)]

\* the body of observations.forEach: one observation, accumulated into
\* acc = [dates, values, rows]
ForEachBody(acc, obs) ==
  LET date == getObservationDate(obs)
      valueQuantity == Or(Get(obs, "valueQuantity"), Obj)
      value == Get(valueQuantity, "value")
      unit == Or(Or(Get(valueQuantity, "unit"), Get(valueQuantity, "code")),
                 Str(<<>>))
      status == Or(Get(obs, "status"), Str(<<>>))
      charted == date # <<>> /\ TypeOf(value) = "number"
      row == [kind |-> "data",
              cells |-> << date,
                           IF value.t \notin {"undefined", "null"}
                             THEN ToStr(value) ELSE <<>>,
                           ToStr(unit),
                           ToStr(status) >>]
  IN  [dates |-> IF charted THEN Append(acc.dates, date) ELSE acc.dates,
       values |-> IF charted THEN Append(acc.values, value.n) ELSE acc.values,
       rows |-> Append(acc.rows, row)]

RECURSIVE ForEach(_, _)
ForEach(acc, observations) ==
  IF observations = <<>> THEN acc
  ELSE ForEach(ForEachBody(acc, Head(observations)), Tail(observations))

\* ------------------------------------------------------ what the servers send
TsEffective ==
  <<"2","0","2","0","-","0","5","-","0","1","T","1","0",":","0","0",":","0","0","Z">>
TsIssued ==
  <<"2","0","1","9","-","0","1","-","1","5","T","0","0",":","0","0",":","0","0","Z">>
TsYear == <<"2","0","2","1">>

\* observations a FHIR server may answer with
ObsPool ==
  { \* complete quantity
    [effectiveDateTime |-> Str(TsEffective), issued |-> Str(TsIssued),
     valueQuantity |-> [t |-> "object", value |-> Num(5),
                        unit |-> Str(<<"mg/dL">>)],
     status |-> Str(<<"final">>)],
    \* issued only, value zero, coded unit only
    [issued |-> Str(TsIssued),
     valueQuantity |-> [t |-> "object", value |-> Num(0),
                        code |-> Str(<<"mmol/L">>)],
     status |-> Str(<<"final">>)],
    \* numeric value and no timestamp at all
    [valueQuantity |-> [t |-> "object", value |-> Num(7),
                        unit |-> Str(<<"mg/dL">>)]],
    \* a quantity whose value is not a number
    [effectiveDateTime |-> Str(TsYear),
     valueQuantity |-> [t |-> "object", value |-> Str(<<"high">>)],
     status |-> Str(<<"preliminary">>)],
    \* a coded qualitative result: no valueQuantity
    [effectiveDateTime |-> Str(TsEffective),
     valueCodeableConcept |-> [t |-> "object", text |-> Str(<<"positive">>)],
     status |-> Str(<<"final">>)],
    \* a quantity without a value
    [effectiveDateTime |-> Str(<<>>), issued |-> Str(TsIssued),
     valueQuantity |-> [t |-> "object", value |-> Null],
     status |-> Str(<<"registered">>)] }

RECURSIVE SeqsUpTo(_, _)
SeqsUpTo(S, n) ==
  IF n = 0 THEN {<<>>}
  ELSE LET shorter == SeqsUpTo(S, n - 1)
       IN  shorter \cup {Append(q, e) : q \in shorter, e \in S}

\* what the observation query resolves with: an array, or nothing
ObsAnswers == SeqsUpTo(ObsPool, MaxObs)

PatientPool ==
  { [name |-> << [t |-> "object", given |-> << <<"Jane">>, <<"Q">> >>,
                  family |-> Str(<<"Doe">>)] >>,
     gender |-> Str(<<"f","e","m","a","l","e">>),
     birthDate |-> Str(<<"1980-01-01">>),
     id |-> Str(DEV_PATIENT_ID)],
    [name |-> << [t |-> "object", use |-> Str(<<"official">>)] >>, id |-> Str(<<"p1">>)],
    [gender |-> Str(<<"o","t","h","e","r">>)] }

\* reasons FHIR.oauth2.ready() rejects with
LaunchErrors ==
  { Err(Str(StatePhrase \o <<" ", "found.">>)),
    Str(<<"Launch failed: ">> \o StatePhrase),
    Err(Str(<<"No", " ", "parameter", " ", "'state'">>)),
    Err(Str(<<"Invalid", " ", "token">>)),
    Err(Str(<<>>)),
    Str(<<"boom">>) }

\* reasons a request rejects with
FetchErrors == { Err(Str(<<"Not", " ", "Found">>)), Err(Undef), Str(<<"timeout">>) }

\* the patient API of a client the launch produced
LaunchPatients ==
  { Undef,
    [t |-> "object", id |-> Undef, read |-> TRUE],
    [t |-> "object", id |-> Undef, read |-> FALSE],
    [t |-> "object", id |-> Str(<<"p1">>), read |-> TRUE],
    [t |-> "object", id |-> Str(<<"p1">>), read |-> FALSE] }

LaunchServerUrl == <<"https", ":", "/", "/", "launch.example", "/", "fhir">>

\* clients FHIR.oauth2.ready() resolves with
LaunchClients ==
  { [state |-> [serverUrl |-> Str(LaunchServerUrl)], patient |-> p] :
      p \in LaunchPatients }

\* FHIR.client(serverUrl): a client with the patient API and no patient yet
FhirClient(serverUrl) ==
  [state |-> [serverUrl |-> Str(serverUrl)],
   patient |-> [t |-> "object", id |-> Undef, read |-> TRUE]]

TypeErr(what) ==
  [t |-> "error", name |-> <<"TypeError">>, message |-> Str(<<what>>)]

\* the separator " U+2022 " the loaders put before a note on the status line
Bullet == " (bullet) "

\* ---------------------------------------------------------------- the state
VARIABLES
  version,         \* which version of the entry script the page runs
  entry,           \* how far the chain FHIR.oauth2.ready().then().catch() got
  launch,          \* what FHIR.oauth2.ready() settled with
  session,         \* the client handed to the loaders, Undef before
  pendingError,    \* an exception on its way to the entry .catch handler
  uncaught,        \* exceptions no handler caught
  status,          \* $("status").textContent
  patientInfo,     \* $("patient-info").innerHTML
  labTable,        \* the rows of $("lab-table-body")
  chart,           \* the options of the last Highcharts.chart("lab-chart", ...)
  requests,        \* the requests issued so far, in order
  patientPromise,  \* the promise of the patient fetch
  labPromise,      \* the promise of the observation query
  fetched,         \* what the observation query settled with
  patientAnswer,   \* what the patient fetch settled with
  arrived,         \* the loaders whose response arrived, in order of arrival
  calls,           \* how often each function was called
  writes           \* how often each region was written; "assign" counts the
                   \* writes of the status line with = instead of +=

vars ==
  << version, entry, launch, session, pendingError, uncaught, status,
     patientInfo, labTable, chart, requests, patientPromise, labPromise,
     fetched, patientAnswer, arrived, calls, writes >>

\* the part of the state the functions of the script read and write
World ==
  [status |-> status, patientInfo |-> patientInfo, labTable |-> labTable,
   chart |-> chart, requests |-> requests, patientPromise |-> patientPromise,
   labPromise |-> labPromise, calls |-> calls, writes |-> writes,
   thrown |-> Undef]

SetWorld(w) ==
  /\ status' = w.status
  /\ patientInfo' = w.patientInfo
  /\ labTable' = w.labTable
  /\ chart' = w.chart
  /\ requests' = w.requests
  /\ patientPromise' = w.patientPromise
  /\ labPromise' = w.labPromise
  /\ calls' = w.calls
  /\ writes' = w.writes

Count(f, k) == [f EXCEPT ![k] = @ + 1]

\* $("status").textContent = text
AssignStatus(w, text) ==
  [w EXCEPT !.status = text,
            !.writes = Count(Count(@, "status"), "assign")]

\* AppendStatus written with = instead of +=
AppendStatus_Overwrite(w, text) ==
  [w EXCEPT !.status = text, !.writes = Count(@, "status")]

\* $("status").textContent += text
AppendStatus(w, text) ==
  [w EXCEPT !.status = @ \o text, !.writes = Count(@, "status")]

SetPatientInfo_NotesStatus(w, html) ==
  [w EXCEPT !.patientInfo = html,
            !.status = @ \o <<Bullet, "Patient loaded.">>,
            !.writes = Count(Count(@, "patientInfo"), "status")]

SetPatientInfo(w, html) ==
  [w EXCEPT !.patientInfo = html, !.writes = Count(@, "patientInfo")]

SetLabTable(w, rows) ==
  [w EXCEPT !.labTable = rows, !.writes = Count(@, "labTable")]

CallRenderChart(w, v, dates, values) ==
  [w EXCEPT !.chart = renderChart(v, dates, values),
            !.writes = Count(@, "chart")]

ConsoleError(w) == [w EXCEPT !.calls = Count(@, "consoleError")]

Throw(w, e) == [w EXCEPT !.thrown = e]

\* typeof p.read === "function"
HasRead(p) == Truthy(p) /\ "read" \in DOMAIN p /\ p.read

\* client.request(url, options)
Request(c, url, options) ==
  [via |-> "request", server |-> c.state.serverUrl.s, url |-> url,
   options |-> options]

\* client.patient.read()
PatientRead(c) ==
  [via |-> "patient.read", server |-> c.state.serverUrl.s, url |-> <<>>,
   options |-> Undef]

NoContextHtml == [t |-> "error", text |-> "No patient context available."]
PatientErrorHtml == [t |-> "error", text |-> "Could not load patient details."]

\* loadPatient reading through client.patient whatever it was given, as the
\* versions without a patientId parameter do
loadPatient_ReadsThroughClient(w0, v, c, patientId) ==
  LET w == [w0 EXCEPT !.calls = Count(@, "loadPatient")]
      issue(r) == [w EXCEPT !.requests = Append(@, r),
                            !.patientPromise = "pending"]
  IN  IF ~Truthy(c.patient)
        THEN Throw(w, TypeErr("Cannot read properties of undefined"))
      ELSE IF ~HasRead(c.patient)
        THEN Throw(w, TypeErr("client.patient.read is not a function"))
      ELSE issue(PatientRead(c))

\* loadPatient preferring client.patient.read() to the explicit identifier
loadPatient_ReadFirst(w0, v, c, patientId) ==
  LET w == [w0 EXCEPT !.calls = Count(@, "loadPatient")]
      issue(r) == [w EXCEPT !.requests = Append(@, r),
                            !.patientPromise = "pending"]
  IN  IF HasRead(c.patient)
        THEN issue(PatientRead(c))
      ELSE IF Truthy(patientId)
        THEN issue(Request(c, <<"Patient/">> \o
                              EncodeURIComponent(patientId.s), Undef))
      ELSE SetPatientInfo(w, NoContextHtml)

\* loadPatient(client, patientId) up to the point where it waits for the fetch;
\* script.js and part_000 take no patientId and read through client.patient
loadPatient(w0, v, c, patientId) ==
  LET w == [w0 EXCEPT !.calls = Count(@, "loadPatient")]
      issue(r) == [w EXCEPT !.requests = Append(@, r),
                            !.patientPromise = "pending"]
  IN  IF TakesPatientId(v)
        THEN IF Truthy(patientId)
               THEN issue(Request(c, <<"Patient/">> \o
                                     EncodeURIComponent(patientId.s), Undef))
             ELSE IF HasRead(c.patient)
               THEN issue(PatientRead(c))
             ELSE SetPatientInfo(w, NoContextHtml)
      ELSE IF ~Truthy(c.patient)
        THEN Throw(w, TypeErr("Cannot read properties of undefined"))
      ELSE IF ~HasRead(c.patient)
        THEN Throw(w, TypeErr("client.patient.read is not a function"))
      ELSE issue(PatientRead(c))

ObservationQuery(v, pid) ==
  <<"Observation?patient=">> \o EncodeURIComponent(pid) \o <<"&code=">> \o
  EncodeURIComponent(LabCode(v)) \o <<"&_sort=date">>

QueryOptions == [t |-> "object", pageLimit |-> PageLimit, flat |-> TRUE]

\* loadCholesterolLabs(client, patientId) (loadPotassiumLabs in part_000) up to
\* the point where it waits for the query
loadCholesterolLabs(w0, v, c, patientId) ==
  LET w == [w0 EXCEPT !.calls = Count(@, "loadLabs")]
      issue(pid) ==
        [w EXCEPT !.requests = Append(@, Request(c, ObservationQuery(v, pid),
                                                 QueryOptions)),
                  !.labPromise = "pending"]
  IN  IF TakesPatientId(v)
        THEN LET pid == Or(patientId,
                           IF Truthy(c.patient) /\ Truthy(Get(c.patient, "id"))
                             THEN c.patient.id ELSE Null)
             IN  IF ~Truthy(pid)
                   THEN CallRenderChart(
                          SetLabTable(
                            AppendStatus(w,
                              <<Bullet, "No patient ID available for cholesterol query.">>),
                            << Placeholder("No patient ID available.") >>),
                          v, <<>>, <<>>)
                 ELSE issue(pid.s)
      ELSE IF ~Truthy(c.patient)
        THEN Throw(w, TypeErr("Cannot read properties of undefined"))
      ELSE issue(ToStr(Get(c.patient, "id")))

\* loadPatient(...); loadCholesterolLabs(...): an exception of the first
\* statement skips the second
LoadBoth(w, v, c, patientId) ==
  LET w1 == loadPatient(w, v, c, patientId)
  IN  IF w1.thrown # Undef THEN w1 ELSE loadCholesterolLabs(w1, v, c, patientId)

\* ------------------------------------------------------------ the entry point
\* the page before the script ran
InitialWorld ==
  [status |-> <<>>, patientInfo |-> [t |-> "initial"], labTable |-> <<>>,
   chart |-> Undef, requests |-> <<>>, patientPromise |-> "none",
   labPromise |-> "none",
   calls |-> [ready |-> 1, loadPatient |-> 0, loadLabs |-> 0, consoleError |-> 0],
   writes |-> [status |-> 0, assign |-> 0, patientInfo |-> 0, labTable |-> 0,
               chart |-> 0],
   thrown |-> Undef]

Init ==
  /\ version \in Versions
  /\ entry = "pending"
  /\ launch = [t |-> "pending"]
  /\ session = Undef
  /\ pendingError = Undef
  /\ uncaught = <<>>
  /\ status = <<>>
  /\ patientInfo = [t |-> "initial"]
  /\ labTable = <<>>
  /\ chart = Undef
  /\ requests = <<>>
  /\ patientPromise = "none"
  /\ labPromise = "none"
  /\ fetched = Undef
  /\ patientAnswer = Undef
  /\ arrived = <<>>
  /\ calls = [ready |-> 1, loadPatient |-> 0, loadLabs |-> 0, consoleError |-> 0]
  /\ writes = [status |-> 0, assign |-> 0, patientInfo |-> 0, labTable |-> 0,
               chart |-> 0]

\* client.patient && client.patient.id ? client.patient.id : null
ContextPatientId(c) ==
  IF Truthy(c.patient) /\ Truthy(Get(c.patient, "id")) THEN c.patient.id ELSE Null

\* the body of the .then handler of FHIR.oauth2.ready()
ThenBody(w, v, c) ==
  LoadBoth(AssignStatus(w, <<"Connected to FHIR server (SMART): ">> \o
                           c.state.serverUrl.s),
           v, c, IF TakesPatientId(v) THEN ContextPatientId(c) ELSE Undef)

\* the client of the dev fallback: part_001 passes the patient identifier on,
\* script.js and part_000 store it with client.patient = { id: patientId }
FallbackClient(v) ==
  IF TakesPatientId(v) THEN FhirClient(DEV_SERVER_URL)
  ELSE [FhirClient(DEV_SERVER_URL) EXCEPT
          !.patient = [t |-> "object", id |-> Str(DEV_PATIENT_ID)]]

IsMissingState(error) == Includes(ToStr(error), StatePhrase)

\* CatchBody with the terminal branch showing String(error) only
CatchBody_StringOnly(w, v, error) ==
  LET w1 == ConsoleError(w)
  IN  IF IsMissingState(error)
        THEN LoadBoth(AssignStatus(w1,
               <<"No SMART launch detected - using sandbox dev mode with a test patient.">>),
               v, FallbackClient(v),
               IF TakesPatientId(v) THEN Str(DEV_PATIENT_ID) ELSE Undef)
        ELSE AssignStatus(w1, <<"Launch error: ">> \o ToStr(error))

\* the body of the .catch handler of the entry chain
CatchBody(w, v, error) ==
  LET w1 == ConsoleError(w)
  IN  IF IsMissingState(error)
        THEN LoadBoth(AssignStatus(w1,
               <<"No SMART launch detected - using sandbox dev mode with a test patient.">>),
               v, FallbackClient(v),
               IF TakesPatientId(v) THEN Str(DEV_PATIENT_ID) ELSE Undef)
        ELSE AssignStatus(w1, <<"Launch error: ">> \o
                              ToStr(Or(Get(error, "message"), error)))

\* FHIR.oauth2.ready() resolves with client c and the .then handler runs
ThenHandler(c) ==
  /\ entry = "pending"
  /\ LET w == ThenBody(World, version, c)
     IN  /\ SetWorld(w)
         /\ entry' = IF w.thrown # Undef THEN "thenThrew" ELSE "launched"
         /\ pendingError' = w.thrown
  /\ launch' = [t |-> "fulfilled", client |-> c]
  /\ session' = c
  /\ UNCHANGED << version, uncaught, fetched, patientAnswer, arrived >>

\* the .catch handler runs on error; nothing is chained behind it
RunCatch(error) ==
  LET w == CatchBody(World, version, error)
  IN  /\ SetWorld(w)
      /\ entry' = IF IsMissingState(error) THEN "fallback" ELSE "terminal"
      /\ session' = IF IsMissingState(error) THEN FallbackClient(version)
                    ELSE session
      /\ uncaught' = IF w.thrown # Undef THEN Append(uncaught, w.thrown)
                     ELSE uncaught
      /\ pendingError' = Undef

\* FHIR.oauth2.ready() rejects with error
CatchOnReject(error) ==
  /\ entry = "pending"
  /\ RunCatch(error)
  /\ launch' = [t |-> "rejected", error |-> error]
  /\ UNCHANGED << version, fetched, patientAnswer, arrived >>

\* the .then handler threw: the same .catch handler gets its exception
CatchOnThrow ==
  /\ entry = "thenThrew"
  /\ RunCatch(pendingError)
  /\ UNCHANGED << version, launch, fetched, patientAnswer, arrived >>

\* ----------------------------------------------------------- patient loader
PatientHtml(patient) ==
  LET first == IF "name" \in DOMAIN patient /\ patient.name # <<>>
                 THEN patient.name[1] ELSE Undef
      gender == Or(Get(patient, "gender"), Str(<<"u","n","k","n","o","w","n">>))
      dob == Or(Get(patient, "birthDate"), Str(<<"unknown">>))
      id == Or(Get(patient, "id"), Str(<<"(no id)">>))
  IN  [t |-> "patient", name |-> formatHumanName(first),
       gender |-> capitalize(ToStr(gender)), dob |-> ToStr(dob),
       id |-> ToStr(id)]

\* the body of the .then handler of the patient fetch
PatientThenBody(w, patient) == SetPatientInfo(w, PatientHtml(patient))

\* the body of the .catch handler of the patient fetch
PatientCatchBody(w, err) == SetPatientInfo(ConsoleError(w), PatientErrorHtml)

\* the patient fetch resolves: the .then handler of loadPatient
PatientThen(patient) ==
  /\ patientPromise = "pending"
  /\ SetWorld([PatientThenBody(World, patient)
                 EXCEPT !.patientPromise = "fulfilled"])
  /\ patientAnswer' = [t |-> "ok", patient |-> patient]
  /\ arrived' = Append(arrived, "patient")
  /\ UNCHANGED << version, entry, launch, session, pendingError, uncaught,
                  fetched >>

\* the patient fetch rejects: the .catch handler of loadPatient
PatientCatch(err) ==
  /\ patientPromise = "pending"
  /\ SetWorld([PatientCatchBody(World, err)
                 EXCEPT !.patientPromise = "rejected"])
  /\ patientAnswer' = [t |-> "error", error |-> err]
  /\ arrived' = Append(arrived, "patient")
  /\ UNCHANGED << version, entry, launch, session, pendingError, uncaught,
                  fetched >>

\* -------------------------------------------------------- lab series loader
NoResultsNote(v) ==
  <<Bullet, "No " \o LabWord(v) \o " results found for this patient.">>

LabErrorNote(v, err) ==
  <<Bullet, "Error loading " \o LabWord(v) \o " labs: ">> \o
  ToStr(Or(Get(err, "message"), err))

\* the body of the .then handler of the observation query
LabThenBody(w, v, observations) ==
  IF observations = <<>>
    THEN CallRenderChart(
           SetLabTable(AppendStatus(w, NoResultsNote(v)),
                       << Placeholder("No " \o LabWord(v) \o " results.") >>),
           v, <<>>, <<>>)
    ELSE LET acc == ForEach([dates |-> <<>>, values |-> <<>>, rows |-> <<>>],
                            observations)
             w1 == [w EXCEPT !.labTable = acc.rows,
                             !.writes.labTable = @ + 1 + Len(acc.rows)]
         IN  CallRenderChart(w1, v, acc.dates, acc.values)

\* LabCatchBody issuing the failed query once more
LabCatchBody_Retry(w, v, err) ==
  [CallRenderChart(
     SetLabTable(AppendStatus(ConsoleError(w), LabErrorNote(v, err)),
                 << Placeholder("Error loading labs.") >>),
     v, <<>>, <<>>)
   EXCEPT !.requests = Append(@, @[Len(@)])]

\* LabCatchBody showing err.message whether or not there is one
LabCatchBody_MessageOnly(w, v, err) ==
  CallRenderChart(
    SetLabTable(AppendStatus(ConsoleError(w),
                  <<Bullet, "Error loading " \o LabWord(v) \o " labs: ">> \o
                  ToStr(Get(err, "message"))),
                << Placeholder("Error loading labs.") >>),
    v, <<>>, <<>>)

\* the body of the .catch handler of the observation query
LabCatchBody(w, v, err) ==
  CallRenderChart(
    SetLabTable(AppendStatus(ConsoleError(w), LabErrorNote(v, err)),
                << Placeholder("Error loading labs.") >>),
    v, <<>>, <<>>)

\* the observation query resolves with observations
LabThen(observations) ==
  /\ labPromise = "pending"
  /\ SetWorld([LabThenBody(World, version, observations)
                 EXCEPT !.labPromise = "fulfilled"])
  /\ fetched' = [t |-> "ok", observations |-> observations]
  /\ arrived' = Append(arrived, "lab")
  /\ UNCHANGED << version, entry, launch, session, pendingError, uncaught,
                  patientAnswer >>

\* the observation query rejects with err
LabCatch(err) ==
  /\ labPromise = "pending"
  /\ SetWorld([LabCatchBody(World, version, err)
                 EXCEPT !.labPromise = "rejected"])
  /\ fetched' = [t |-> "error", error |-> err]
  /\ arrived' = Append(arrived, "lab")
  /\ UNCHANGED << version, entry, launch, session, pendingError, uncaught,
                  patientAnswer >>

Next ==
  \/ \E c \in LaunchClients : ThenHandler(c)
  \/ \E error \in LaunchErrors : CatchOnReject(error)
  \/ CatchOnThrow
  \/ \E patient \in PatientPool : PatientThen(patient)
  \/ \E err \in FetchErrors : PatientCatch(err)
  \/ \E observations \in ObsAnswers : LabThen(observations)
  \/ \E err \in FetchErrors : LabCatch(err)

Spec == Init /\ [][Next]_vars

\* ================================================================ properties
\* the observation query resolved and its .then handler has rendered
LabRendered == fetched.t = "ok"

Observations == fetched.observations

IsDataRow(r) == r.kind = "data"

\* C1 as the spec words it: after a successful fetch the table has as many
\* rows as observations were fetched, for every length.
C1_RowsAlwaysEqualFetched ==
  LabRendered => Len(labTable) = Len(Observations)

\* C1, amended: after a successful fetch of one or more observations the lab
\* table holds exactly one data row per observation; after a successful fetch
\* of none it holds exactly one placeholder row; no later step changes this.
C1_RowsEqualFetchedOrPlaceholder ==
  LabRendered =>
    IF Len(Observations) = 0
      THEN /\ Len(labTable) = 1
           /\ labTable[1].kind = "placeholder"
      ELSE /\ Len(labTable) = Len(Observations)
           /\ \A i \in 1..Len(labTable) : IsDataRow(labTable[i])

\* a fetch of the longest sequence was rendered, part of it left out of the
\* chart, and the patient callback ran afterwards or before
C1_Witness ==
  /\ LabRendered
  /\ Len(Observations) >= 2
  /\ Len(labTable) = Len(Observations)
  /\ chart.series # <<>>
  /\ Len(chart.series[1].data) < Len(labTable)
  /\ patientPromise \in {"fulfilled", "rejected"}

\* an effective or issued timestamp is present
HasTimestamp(o) ==
  \/ "effectiveDateTime" \in DOMAIN o /\ o.effectiveDateTime.s # <<>>
  \/ "issued" \in DOMAIN o /\ o.issued.s # <<>>

\* the result is a quantity whose value is a number
HasNumber(o) ==
  /\ "valueQuantity" \in DOMAIN o
  /\ "value" \in DOMAIN o.valueQuantity
  /\ o.valueQuantity.value.t = "number"

Chartable(o) == HasTimestamp(o) /\ HasNumber(o)

\* the values handed to the chart: none when it shows the placeholder
ChartValues == IF chart.series = <<>> THEN <<>> ELSE chart.series[1].data

ChartedObservations == SelectSeq(Observations, Chartable)

\* C2: for every fetched sequence the chart gets one point per observation
\* that has a timestamp and a numeric value, in the observations' order, and
\* never more points than the table has rows.
C2_ChartPointsAreTheChartable ==
  LabRendered =>
    /\ Len(ChartValues) = Len(ChartedObservations)
    /\ Len(chart.categories) = Len(ChartValues)
    /\ \A i \in 1..Len(ChartValues) :
         ChartValues[i] = ChartedObservations[i].valueQuantity.value.n
    /\ Len(ChartValues) <= Len(labTable)

\* two points were charted out of a fetch that also held an observation
\* without a timestamp or without a number
C2_Witness ==
  /\ LabRendered
  /\ Len(ChartValues) >= 1
  /\ Len(ChartValues) < Len(Observations)
  /\ \E i \in 1..Len(Observations) :
       HasNumber(Observations[i]) /\ ~HasTimestamp(Observations[i])

\* requests of the patient loader and of the lab series loader
IsObservationQuery(r) ==
  r.via = "request" /\ r.url # <<>> /\ r.url[1] = "Observation?patient="

IsPatientFetch(r) == ~IsObservationQuery(r)

PatientFetches == SelectSeq(requests, IsPatientFetch)

ObservationQueries == SelectSeq(requests, IsObservationQuery)

\* C3: when session establishment fails for the missing-state-parameter
\* reason, the session is for the dev server, both loaders are invoked with
\* it, and each issues its request for patient smart-1288992; in every
\* version of the entry script.
C3_FallbackFiresBothLoaders ==
  entry = "fallback" =>
    /\ session.state.serverUrl.s = DEV_SERVER_URL
    /\ calls.loadPatient = 1
    /\ calls.loadLabs = 1
    /\ Len(PatientFetches) = 1
    /\ PatientFetches[1].server = DEV_SERVER_URL
    /\ \/ PatientFetches[1].url = <<"Patient/">> \o DEV_PATIENT_ID
       \/ /\ PatientFetches[1].via = "patient.read"
          /\ session.patient.id = Str(DEV_PATIENT_ID)
    /\ Len(ObservationQueries) = 1
    /\ ObservationQueries[1].server = DEV_SERVER_URL
    /\ IsPrefix(<<"Observation?patient=">> \o DEV_PATIENT_ID,
                ObservationQueries[1].url)

\* the failure's message, or its string form when it has no message
MessageOrString(e) ==
  IF e.t = "string" THEN e.s
  ELSE IF e.message.t = "string" /\ e.message.s # <<>> THEN e.message.s
  ELSE e.name

\* session establishment failed for another reason than the missing state
\* parameter
OtherLaunchFailure == launch.t = "rejected" /\ ~IsMissingState(launch.error)

\* C4: when session establishment fails for any other reason than the missing
\* launch parameter, the status line is the launch-error text with the
\* failure's message (or its string form), no loader is invoked, no request
\* is issued, and patient-info, lab table and chart are never written.
C4_OtherFailureIsTerminal ==
  OtherLaunchFailure =>
    /\ entry = "terminal"
    /\ status = <<"Launch error: ">> \o MessageOrString(launch.error)
    /\ calls.loadPatient = 0
    /\ calls.loadLabs = 0
    /\ requests = <<>>
    /\ patientPromise = "none"
    /\ labPromise = "none"
    /\ writes.patientInfo = 0
    /\ writes.labTable = 0
    /\ writes.chart = 0
    /\ patientInfo = [t |-> "initial"]
    /\ labTable = <<>>
    /\ chart = Undef

\* the launch failed with an Error that carries a message without the phrase
C4_Witness ==
  /\ OtherLaunchFailure
  /\ launch.error.t = "error"
  /\ Truthy(launch.error.message)
  /\ entry = "terminal"
  /\ writes.assign = 1

\* a session was resolved, by launch or by the dev fallback
SessionResolved ==
  \/ launch.t = "fulfilled"
  \/ launch.t = "rejected" /\ IsMissingState(launch.error)

\* the resolved session comes with a patient identifier
PatientIdKnown ==
  \/ launch.t = "rejected"
  \/ /\ launch.t = "fulfilled"
     /\ session.patient.t = "object"
     /\ session.patient.id.t = "string"
     /\ session.patient.id.s # <<>>

Settled(p) == p \in {"fulfilled", "rejected"}

NoPatientIdRow == [kind |-> "placeholder", colspan |-> 4,
                   text |-> "No patient ID available."]

LabErrorRow == [kind |-> "placeholder", colspan |-> 4,
                text |-> "Error loading labs."]

\* each loader runs to its own outcome, whatever state the other is in; every
\* write is counted, so the counts say that no callback of one loader writes a
\* region of the other
LoadersIsolated ==
  /\ calls.loadPatient = 1
  /\ calls.loadLabs = 1
  /\ uncaught = <<>>
  /\ patientPromise = "none" => patientInfo = NoContextHtml
  /\ patientPromise = "pending" =>
       /\ patientInfo = [t |-> "initial"]
       /\ ENABLED (\E p \in PatientPool : PatientThen(p))
       /\ ENABLED (\E e \in FetchErrors : PatientCatch(e))
  /\ patientPromise = "fulfilled" => patientInfo.t = "patient"
  /\ patientPromise = "rejected" => patientInfo = PatientErrorHtml
  /\ writes.patientInfo = IF patientPromise = "pending" THEN 0 ELSE 1
  /\ labPromise = "pending" =>
       /\ labTable = <<>> /\ chart = Undef
       /\ ENABLED (\E o \in ObsAnswers : LabThen(o))
       /\ ENABLED (\E e \in FetchErrors : LabCatch(e))
  /\ labPromise = "fulfilled" => fetched.t = "ok" /\ labTable # <<>>
  /\ labPromise = "rejected" => fetched.t = "error" /\ labTable = <<LabErrorRow>>
  /\ writes.chart = IF labPromise = "pending" THEN 0 ELSE 1
  /\ writes.labTable = 0 <=> labPromise = "pending"
  /\ writes.status =
       IF \/ labPromise = "pending"
          \/ labPromise = "fulfilled" /\ fetched.observations # <<>>
         THEN 1 ELSE 2
  /\ Len(requests) = (IF patientPromise = "none" THEN 0 ELSE 1) +
                     (IF labPromise = "none" THEN 0 ELSE 1)

\* C5 as worded: once a session is resolved the Lab Series Loader issues its
\* query and renders its own outcome for every outcome of the patient fetch,
\* the Patient Loader renders its own for every outcome of the lab query, a
\* patient failure changes only patient-info and a lab failure never changes
\* patient-info.
C5_LabQueryAlwaysIssued ==
  (TakesPatientId(version) /\ SessionResolved /\ patientPromise # "none") =>
    /\ LoadersIsolated
    /\ labPromise # "none"
    /\ Len(ObservationQueries) = 1

\* C5, amended: once a session is resolved both loaders run to their own
\* outcome independently of each other; the Lab Series Loader issues its query
\* whenever a patient identifier is resolvable and otherwise renders its
\* no-patient-ID row and empty chart without a query; a patient failure changes
\* only patient-info and a lab failure never changes patient-info.
C5_LoadersIsolated ==
  (TakesPatientId(version) /\ SessionResolved) =>
    /\ LoadersIsolated
    /\ IF PatientIdKnown
         THEN labPromise # "none" /\ Len(ObservationQueries) = 1
         ELSE /\ labPromise = "none"
              /\ ObservationQueries = <<>>
              /\ labTable = <<NoPatientIdRow>>
              /\ chart.series = <<>>

\* the patient fetch failed and the observation query still rendered rows
C5_Witness ==
  /\ TakesPatientId(version)
  /\ SessionResolved
  /\ patientPromise = "rejected"
  /\ labPromise = "fulfilled"
  /\ Len(labTable) >= 2
  /\ patientInfo = PatientErrorHtml

\* C6: in one page load session establishment is attempted exactly once, at
\* most one patient fetch and at most one observation query are issued, and no
\* failure handler issues a request again.
C6_NoRetry ==
  /\ calls.ready = 1
  /\ calls.loadPatient <= 1
  /\ calls.loadLabs <= 1
  /\ Len(PatientFetches) <= 1
  /\ Len(ObservationQueries) <= 1
  /\ Len(PatientFetches) = 1 <=> patientPromise # "none"
  /\ Len(ObservationQueries) = 1 <=> labPromise # "none"

\* establishment failed into the fallback and both fetches failed as well
C6_Witness ==
  /\ launch.t = "rejected"
  /\ patientPromise = "rejected"
  /\ labPromise = "rejected"
  /\ Len(requests) = 2
  /\ calls.consoleError = 3

\* C7: the Patient Loader fetches by explicit identifier when it has one,
\* else through the session's current-patient read when the session has it,
\* else renders the no-patient-context placeholder and no request is issued.
C7_PatientFetchPriority ==
  (TakesPatientId(version) /\ SessionResolved) =>
    IF PatientIdKnown
      THEN /\ Len(PatientFetches) = 1
           /\ PatientFetches[1].via = "request"
           /\ PatientFetches[1].url =
                <<"Patient/">> \o
                (IF launch.t = "rejected" THEN DEV_PATIENT_ID
                 ELSE session.patient.id.s)
    ELSE IF session.patient.t = "object" /\ session.patient.read
      THEN /\ Len(PatientFetches) = 1
           /\ PatientFetches[1].via = "patient.read"
    ELSE /\ patientInfo = NoContextHtml
         /\ patientPromise = "none"
         /\ requests = <<>>

\* a launch without patient identifier and without the read capability
C7_Witness ==
  /\ TakesPatientId(version)
  /\ launch.t = "fulfilled"
  /\ ~PatientIdKnown
  /\ ~HasRead(session.patient)
  /\ patientInfo = NoContextHtml
  /\ calls.loadPatient = 1

\* the status text the session resolver assigned
EntryStatus ==
  IF launch.t = "fulfilled"
    THEN <<"Connected to FHIR server (SMART): ">> \o session.state.serverUrl.s
    ELSE <<"No SMART launch detected - using sandbox dev mode with a test patient.">>

\* C8: when the observation query fails the loader appends an error note with
\* the failure's message (or its string form) to the status text, the lab
\* table holds exactly one error placeholder row, the chart is the empty
\* placeholder, and nothing is thrown further.
C8_LabFailureRendered ==
  fetched.t = "error" =>
    /\ labPromise = "rejected"
    /\ \E note \in {"Error loading cholesterol labs: ",
                    "Error loading potassium labs: "} :
         status = EntryStatus \o <<Bullet, note>> \o
                  MessageOrString(fetched.error)
    /\ labTable = <<LabErrorRow>>
    /\ chart.series = <<>>
    /\ chart.categories = <<>>
    /\ chart.title = "No data to display"
    /\ uncaught = <<>>
    /\ pendingError = Undef

\* the query failed with a reason that has no message
C8_Witness ==
  /\ fetched.t = "error"
  /\ fetched.error.t = "string"
  /\ labTable = <<LabErrorRow>>
  /\ Len(status) > Len(EntryStatus)

\* C9: the status line is assigned exactly once, by the session resolver, and
\* every later write leaves the previous text as a prefix of the new text.
C9_StatusAppendOnly ==
  /\ [](TakesPatientId(version) =>
          /\ writes.assign <= 1
          /\ launch.t # "pending" => writes.assign = 1
          /\ writes.assign = 0 => writes.status = 0)
  /\ [][(TakesPatientId(version) /\ writes.assign = 1) =>
          /\ writes'.assign = 1
          /\ IsPrefix(status, status')]_vars

\* a loader appended to the status the resolver had assigned
C9_Witness ==
  /\ TakesPatientId(version)
  /\ writes.assign = 1
  /\ writes.status = 2
  /\ Len(status) > Len(EntryStatus)
  /\ IsPrefix(EntryStatus, status)

\* the result value of an observation that is present and not a number
HasNonNumericQuantity(o) ==
  /\ "valueQuantity" \in DOMAIN o
  /\ "value" \in DOMAIN o.valueQuantity
  /\ o.valueQuantity.value.t \notin {"number", "null", "undefined"}

HasCodedResult(o) == "valueCodeableConcept" \in DOMAIN o

RawResult(o) ==
  IF HasNonNumericQuantity(o) THEN o.valueQuantity.value.s
  ELSE o.valueCodeableConcept.text.s

NumericCount == Cardinality({i \in 1..Len(Observations) : HasNumber(Observations[i])})

\* C10 as worded: an observation whose result value is present but not numeric,
\* a coded qualitative result for one, makes one row showing its raw value and
\* no chart point.
C10_NonNumericShownRaw ==
  LabRendered =>
    /\ Len(ChartValues) <= NumericCount
    /\ \A i \in 1..Len(Observations) :
         (HasNonNumericQuantity(Observations[i]) \/ HasCodedResult(Observations[i])) =>
           /\ Len(labTable) = Len(Observations)
           /\ IsDataRow(labTable[i])
           /\ labTable[i].cells[2] = RawResult(Observations[i])

\* C10, amended: an observation whose valueQuantity.value is present but not a
\* number makes one row showing that value and no chart point; a result
\* carried outside valueQuantity (a coded one) makes one row with an empty
\* value cell and no chart point.
C10_NonNumericQuantityShownRaw ==
  LabRendered =>
    /\ Len(ChartValues) <= NumericCount
    /\ \A i \in 1..Len(Observations) :
         /\ HasNonNumericQuantity(Observations[i]) =>
              /\ Len(labTable) = Len(Observations)
              /\ IsDataRow(labTable[i])
              /\ labTable[i].cells[2] = RawResult(Observations[i])
         /\ (HasCodedResult(Observations[i]) /\ "valueQuantity" \notin DOMAIN Observations[i]) =>
              /\ Len(labTable) = Len(Observations)
              /\ IsDataRow(labTable[i])
              /\ labTable[i].cells[2] = <<>>

\* a fetch with a non-numeric quantity beside a charted one
C10_Witness ==
  /\ LabRendered
  /\ Len(ChartValues) = 1
  /\ \E i \in 1..Len(Observations) :
       /\ HasNonNumericQuantity(Observations[i])
       /\ labTable[i].cells[2] = <<"high">>

\* the page as the entry handler left it, before any response arrived
EntryWorld ==
  IF launch.t = "fulfilled"
    THEN ThenBody(InitialWorld, version, launch.client)
    ELSE CatchBody(InitialWorld, version, launch.error)

\* the completion callback of one loader, run on w with the outcome its
\* request had
Completion(w, loader) ==
  IF loader = "patient"
    THEN IF patientAnswer.t = "ok"
           THEN PatientThenBody(w, patientAnswer.patient)
           ELSE PatientCatchBody(w, patientAnswer.error)
    ELSE IF fetched.t = "ok"
           THEN LabThenBody(w, version, fetched.observations)
           ELSE LabCatchBody(w, version, fetched.error)

\* the page had the two completion callbacks run in the other order
OtherOrder == Completion(Completion(EntryWorld, arrived[2]), arrived[1])

\* C11: for a fixed session and fixed outcomes of the patient fetch and of the
\* observation query, the status line, patient-info, lab table and chart end
\* the same in whichever order the two completion callbacks ran.
C11_OrderIndependent ==
  Len(arrived) = 2 =>
    /\ status = OtherOrder.status
    /\ patientInfo = OtherOrder.patientInfo
    /\ labTable = OtherOrder.labTable
    /\ chart = OtherOrder.chart

\* the lab failure arrived before the patient failure
C11_Witness ==
  /\ arrived = <<"lab", "patient">>
  /\ fetched.t = "error"
  /\ patientAnswer.t = "error"
  /\ Len(status) > Len(EntryStatus)
  /\ patientInfo = PatientErrorHtml

====
